---- MODULE Spec2Model ----
(***************************************************************************)
(* Model of algorithms/bloom_filter/bloom_filter.py: class BloomFilter     *)
(* (one instance and the caller that constructs and uses it) and the       *)
(* module level parameter functions.  Spec is the caller of one filter,    *)
(* SpecFormulas the caller of the parameter functions, SpecTwin two        *)
(* filters with equal parameters, SpecRace two threads inside add() on one *)
(* filter.                                                                 *)
(*                                                                         *)
(* Numbers.  Python integers are unbounded; the two digests are 128 and    *)
(* 256 bit numbers.  They are kept as their hexadecimal digit strings and  *)
(* reduced modulo the filter size while they are parsed, which gives the   *)
(* same positions as (h1 + i * h2) % size on the full numbers.  Floating   *)
(* point values are kept in fixed point: a false positive rate is an       *)
(* integer number of thousandths, a natural logarithm an integer number of *)
(* millionths.                                                             *)
(***************************************************************************)
EXTENDS Integers, Sequences, FiniteSets, TLC

VARIABLES
    phase,        \* "none": the caller holds no filter; "live": it holds one
    size,         \* self.size        (0 while no instance attribute is set)
    hash_count,   \* self.hash_count  (0 while no instance attribute is set)
    bit_array,    \* self.bit_array   (<<>> while not allocated)
    items_added,  \* self.items_added
    added,        \* history: the items add() was called with
    addCalls,     \* history: the number of add() calls
    last,         \* the most recent call: operation, arguments, outcome
    twin_bit_array,   \* bit_array of a second filter constructed with the
                      \* same size and hash_count (<<>> while there is none)
    twin_items_added, \* items_added of the second filter
    threads,      \* per thread: its position in add() and the locals of add()
    before        \* history: the filter when the first of the threads' add()
                  \* calls began

vars == <<phase, size, hash_count, bit_array, items_added, added, addCalls, last,
          twin_bit_array, twin_items_added, threads, before>>

twin == <<twin_bit_array, twin_items_added>>

race == <<threads, before>>

\* the attributes of the filter and of the second filter
Self ==
    [size |-> size, hash_count |-> hash_count, bit_array |-> bit_array,
     items_added |-> items_added]

Twin ==
    [size |-> size, hash_count |-> hash_count, bit_array |-> twin_bit_array,
     items_added |-> twin_items_added]

(***************************************************************************)
(* Bounds of the model.                                                    *)
(***************************************************************************)
MaxSize == 4
MaxHashCount == 3
MaxExpected == 3
MaxAdds == 3
MaxTwinAdds == 2

(***************************************************************************)
(* The items the caller uses: four strings and one integer, the integer    *)
(* 42 and the string "42" having the same str().  A string is the sequence *)
(* of its code points.                                                     *)
(***************************************************************************)
StrItem(cp) == [kind |-> "str", chars |-> cp, n |-> 0]
IntItem(i) == [kind |-> "int", chars |-> <<>>, n |-> i]

Hello == StrItem(<<104, 101, 108, 108, 111>>)
World == StrItem(<<119, 111, 114, 108, 100>>)
Str42 == StrItem(<<52, 50>>)
EAcute == StrItem(<<233>>)
Int42 == IntItem(42)

Items == {Hello, World, Str42, Int42, EAcute}

NoItem == StrItem(<<>>)

(***************************************************************************)
(* str(item) and .encode('utf-8')                                          *)
(***************************************************************************)
RECURSIVE Digits(_)
Digits(i) == IF i < 10 THEN <<48 + i>> ELSE Digits(i \div 10) \o <<48 + (i % 10)>>

str(item) ==
    IF item.kind = "int"
    THEN IF item.n < 0 THEN <<45>> \o Digits(-item.n) ELSE Digits(item.n)
    ELSE item.chars

EncodeChar(c) ==
    IF c < 128 THEN <<c>>
    ELSE <<192 + (c \div 64), 128 + (c % 64)>>

RECURSIVE encode(_)
encode(cp) == IF cp = <<>> THEN <<>> ELSE EncodeChar(Head(cp)) \o encode(Tail(cp))

(***************************************************************************)
(* hashlib.md5(b).hexdigest() and hashlib.sha256(b).hexdigest() for the    *)
(* byte strings of Items.  A digest is the sequence of its groups of four  *)
(* hexadecimal digits, each group written as a number below 65536, most    *)
(* significant group first.                                                *)
(***************************************************************************)
md5_hexdigest(b) ==
    CASE b = <<104, 101, 108, 108, 111>> ->  \* 5d41402abc4b2a76...
           <<23873, 16426, 48203, 10870, 47473, 40337, 4119, 50578>>
      [] b = <<119, 111, 114, 108, 100>> ->  \* 7d793037a0760186...
           <<32121, 12343, 41078, 390, 22347, 642, 62196, 13799>>
      [] b = <<52, 50>> ->  \* a1d0c6e83f027327...
           <<41424, 50920, 16130, 29479, 55366, 4195, 62636, 22694>>
      [] b = <<195, 169>> ->  \* 66ddcd97cfdeabb2...
           <<26333, 52631, 53214, 43954, 63227, 35481, 39755, 51055>>

sha256_hexdigest(b) ==
    CASE b = <<104, 101, 108, 108, 111>> ->  \* 2cf24dba5fb0a30e...
           <<11506, 19898, 24496, 41742, 9960, 15146, 50617, 58014,
             6934, 7772, 8103, 16990, 29444, 13154, 37771, 38948>>
      [] b = <<119, 111, 114, 108, 100>> ->  \* 486ea46224d1bb4f...
           <<18542, 42082, 9425, 47951, 46720, 62287, 31898, 55658,
             36644, 60552, 48755, 60046, 23148, 25894, 3740, 47271>>
      [] b = <<52, 50>> ->  \* 73475cb40a568e8d...
           <<29511, 23732, 2646, 36493, 43168, 17870, 53520, 4990,
             5535, 35082, 50394, 34875, 27415, 56421, 6970, 32841>>
      [] b = <<195, 169>> ->  \* 4a99557e4033c353...
           <<19097, 21886, 16435, 50003, 40418, 60261, 18208, 6090,
             54777, 21887, 31238, 9632, 40732, 16238, 11174, 40012>>

(***************************************************************************)
(* int(hex, 16) % m, reduced group by group: the first len groups of hex   *)
(* read as a base 65536 number, modulo m.                                  *)
(***************************************************************************)
HexGroup == 65536

RECURSIVE IntHexMod(_, _, _)
IntHexMod(hex, len, m) ==
    IF len = 0 THEN 0
    ELSE (IntHexMod(hex, len - 1, m) * HexGroup + hex[len]) % m

(***************************************************************************)
(* BloomFilter._get_hash_values: the list of hash_count positions          *)
(* (h1 + i * h2) % size for i = 0 .. hash_count - 1, as computed for a     *)
(* filter of size m with k hash functions.                                 *)
(***************************************************************************)
\* variant: the two digests are exchanged, (h2 + i * h1) % size
HashValuesForSwapped(item, m, k) ==
    LET item_bytes == encode(str(item))
        d1 == md5_hexdigest(item_bytes)
        d2 == sha256_hexdigest(item_bytes)
        h1 == IntHexMod(d1, Len(d1), m)
        h2 == IntHexMod(d2, Len(d2), m)
    IN  [j \in 1..k |-> (h2 + (j - 1) * h1) % m]

HashValuesFor(item, m, k) ==
    LET item_bytes == encode(str(item))
        d1 == md5_hexdigest(item_bytes)
        d2 == sha256_hexdigest(item_bytes)
        h1 == IntHexMod(d1, Len(d1), m)
        h2 == IntHexMod(d2, Len(d2), m)
    IN  [j \in 1..k |-> (h1 + (j - 1) * h2) % m]

\* variant: the positions are shifted by the filter's insert counter
GetHashValuesSalted(self, item) ==
    LET hv == HashValuesFor(item, self.size, self.hash_count)
    IN  [j \in 1..self.hash_count |-> (hv[j] + self.items_added) % self.size]

\* variant: the positions are reduced modulo size + 1
GetHashValuesOffByOne(self, item) ==
    HashValuesFor(item, self.size + 1, self.hash_count)

\* _get_hash_values(self, item): it reads self.hash_count and self.size
GetHashValues(self, item) == HashValuesFor(item, self.size, self.hash_count)

get_hash_values(item) == GetHashValues(Self, item)

(***************************************************************************)
(* The record of the most recent call.                                     *)
(*   op     the operation                                                  *)
(*   item   its item argument (NoItem when it has none)                    *)
(*   args   its integer arguments                                          *)
(*   err    "" when it returned, the exception type when it raised         *)
(*   msg    the message of the exception                                   *)
(*   ok     a boolean return value                                         *)
(*   num, den   a numeric return value num / den                           *)
(*   locals the values of the local variables computed before it ended     *)
(*   n0     items_added when the call started                              *)
(***************************************************************************)
Call(op, item, args) ==
    [op |-> op, item |-> item, args |-> args, err |-> "", msg |-> "", ok |-> FALSE,
     num |-> 0, den |-> 1, locals |-> <<>>, n0 |-> items_added]

(***************************************************************************)
(* Threads that call add() on the one filter.  A thread that is inside     *)
(* add() is at one of its statements:                                      *)
(*   "loop"   for position in hash_values: self.bit_array[position] = True *)
(*   "load"   self.items_added += 1, before it has read self.items_added   *)
(*   "store"  self.items_added += 1, before it has written the sum         *)
(* and holds the locals of the call: item, hash_values, the index i of the *)
(* next position of the loop, and the value n it read from items_added.    *)
(* raced is history: the thread wrote a bit while the other thread was     *)
(* between two writes of its own loop.                                     *)
(***************************************************************************)
Threads == {1, 2}

Other(t) == CHOOSE u \in Threads : u # t

IdleThread ==
    [pc |-> "idle", item |-> NoItem, hash_values |-> <<>>, i |-> 0, n |-> 0,
     raced |-> FALSE]

NoFilter == [size |-> 0, hash_count |-> 0, bit_array |-> <<>>, items_added |-> 0]

Init ==
    /\ phase = "none"
    /\ size = 0
    /\ hash_count = 0
    /\ bit_array = <<>>
    /\ items_added = 0
    /\ added = {}
    /\ addCalls = 0
    /\ last = Call("start", NoItem, <<>>)
    /\ twin_bit_array = <<>>
    /\ twin_items_added = 0
    /\ threads = [t \in Threads |-> IdleThread]
    /\ before = NoFilter

(***************************************************************************)
(* BloomFilter.__init__(size, hash_count), called by the caller directly   *)
(* or through create_optimal.  The two checks come before any assignment.  *)
(***************************************************************************)
Raise(call, msg) == [call EXCEPT !.err = "ValueError", !.msg = msg]

\* variant: the bit array is allocated with every bit set
init_bits_set(call, s, h) ==
    IF s <= 0
    THEN /\ last' = Raise(call, "Size must be positive")
         /\ UNCHANGED <<phase, size, hash_count, bit_array, items_added>>
    ELSE IF h <= 0
    THEN /\ last' = Raise(call, "Hash count must be positive")
         /\ UNCHANGED <<phase, size, hash_count, bit_array, items_added>>
    ELSE /\ size' = s
         /\ hash_count' = h
         /\ bit_array' = [j \in 1..s |-> TRUE]
         /\ items_added' = 0
         /\ phase' = "live"
         /\ last' = call

\* variant: a hash count of zero is accepted
init_accepts_zero(call, s, h) ==
    IF s <= 0
    THEN /\ last' = Raise(call, "Size must be positive")
         /\ UNCHANGED <<phase, size, hash_count, bit_array, items_added>>
    ELSE IF h < 0
    THEN /\ last' = Raise(call, "Hash count must be positive")
         /\ UNCHANGED <<phase, size, hash_count, bit_array, items_added>>
    ELSE /\ size' = s
         /\ hash_count' = h
         /\ bit_array' = [j \in 1..s |-> FALSE]
         /\ items_added' = 0
         /\ phase' = "live"
         /\ last' = call

init(call, s, h) ==
    IF s <= 0
    THEN /\ last' = Raise(call, "Size must be positive")
         /\ UNCHANGED <<phase, size, hash_count, bit_array, items_added>>
    ELSE IF h <= 0
    THEN /\ last' = Raise(call, "Hash count must be positive")
         /\ UNCHANGED <<phase, size, hash_count, bit_array, items_added>>
    ELSE /\ size' = s
         /\ hash_count' = h
         /\ bit_array' = [j \in 1..s |-> FALSE]
         /\ items_added' = 0
         /\ phase' = "live"
         /\ last' = call

New(s, h) ==
    /\ phase = "none"
    /\ init(Call("new", NoItem, <<s, h>>), s, h)
    /\ UNCHANGED <<added, addCalls>>
    /\ UNCHANGED twin
    /\ UNCHANGED race

(***************************************************************************)
(* Floating point, in fixed point.  A false positive rate p is the integer *)
(* fp = 1000 * p.  math_log(fp) is math.log(p) in millionths, truncated    *)
(* towards zero, for the rates of FpRates that math.log accepts (p > 0).   *)
(* For every expected_elements up to 59 and every rate of FpRates the      *)
(* integer results below equal the results of the floating point           *)
(* expressions of the source.                                              *)
(***************************************************************************)
FpRates == {-100, 0, 1, 10, 500, 900, 1000, 1500}

math_log(fp) ==
    CASE fp = 1 -> -6907755
      [] fp = 10 -> -4605170
      [] fp = 500 -> -693147
      [] fp = 900 -> -105360
      [] fp = 1000 -> 0
      [] fp = 1500 -> 405465

Ln2Micro == 693147
Ln2SquaredMicro == 480453

\* int(a / b) for b > 0: Python's int() truncates towards zero
PyInt(a, b) == IF a >= 0 THEN a \div b ELSE -((-a) \div b)

max(a, b) == IF a >= b THEN a ELSE b

\* int(-expected_elements * math.log(fp_rate) / (math.log(2) ** 2))
OptimalSizeExpr(expected_elements, fp) ==
    PyInt(-expected_elements * math_log(fp), Ln2SquaredMicro)

\* variant: the hash count is rounded up
OptimalHashCountExprCeil(sz, expected_elements) ==
    LET a == sz * Ln2Micro
        b == expected_elements * 1000000
        q == PyInt(a, b)
    IN  IF q * b < a THEN q + 1 ELSE q

\* int((size / expected_elements) * math.log(2))
OptimalHashCountExpr(sz, expected_elements) ==
    PyInt(sz * Ln2Micro, expected_elements * 1000000)

(***************************************************************************)
(* BloomFilter.create_optimal(expected_elements, fp_rate)                  *)
(***************************************************************************)
\* variant: a false positive rate of exactly 1 passes the range check
CreateOptimalAcceptsOne(expected_elements, fp) ==
    /\ phase = "none"
    /\ LET call == Call("create_optimal", NoItem, <<expected_elements, fp>>)
       IN  IF expected_elements <= 0
           THEN /\ last' = Raise(call, "Expected elements must be positive")
                /\ UNCHANGED <<phase, size, hash_count, bit_array, items_added>>
           ELSE IF ~(0 < fp /\ fp <= 1000)
           THEN /\ last' = Raise(call, "False positive rate must be between 0 and 1")
                /\ UNCHANGED <<phase, size, hash_count, bit_array, items_added>>
           ELSE LET sz == OptimalSizeExpr(expected_elements, fp)
                    hc == max(1, OptimalHashCountExpr(sz, expected_elements))
                IN  init([call EXCEPT !.locals = <<sz, hc>>], sz, hc)
    /\ UNCHANGED <<added, addCalls>>
    /\ UNCHANGED twin
    /\ UNCHANGED race

CreateOptimal(expected_elements, fp) ==
    /\ phase = "none"
    /\ LET call == Call("create_optimal", NoItem, <<expected_elements, fp>>)
       IN  IF expected_elements <= 0
           THEN /\ last' = Raise(call, "Expected elements must be positive")
                /\ UNCHANGED <<phase, size, hash_count, bit_array, items_added>>
           ELSE IF ~(0 < fp /\ fp < 1000)
           THEN /\ last' = Raise(call, "False positive rate must be between 0 and 1")
                /\ UNCHANGED <<phase, size, hash_count, bit_array, items_added>>
           ELSE LET sz == OptimalSizeExpr(expected_elements, fp)
                    hc == max(1, OptimalHashCountExpr(sz, expected_elements))
                IN  init([call EXCEPT !.locals = <<sz, hc>>], sz, hc)
    /\ UNCHANGED <<added, addCalls>>
    /\ UNCHANGED twin
    /\ UNCHANGED race

(***************************************************************************)
(* BloomFilter.add                                                         *)
(***************************************************************************)
\* variant: the last position of the list is not written
RECURSIVE SetBitsSkipLast(_, _, _)
SetBitsSkipLast(bits, hash_values, i) ==
    IF i >= Len(hash_values) THEN bits
    ELSE SetBitsSkipLast([bits EXCEPT ![hash_values[i] + 1] = TRUE], hash_values, i + 1)

\* variant: each position is flipped instead of set
RECURSIVE SetBitsToggle(_, _, _)
SetBitsToggle(bits, hash_values, i) ==
    IF i > Len(hash_values) THEN bits
    ELSE SetBitsToggle([bits EXCEPT ![hash_values[i] + 1] = ~bits[hash_values[i] + 1]],
                       hash_values, i + 1)

\* variant: the cell after each position is written, wrapping at the end
RECURSIVE SetBitsOffByOne(_, _, _)
SetBitsOffByOne(bits, hash_values, i) ==
    IF i > Len(hash_values) THEN bits
    ELSE SetBitsOffByOne([bits EXCEPT ![((hash_values[i] + 1) % Len(bits)) + 1] = TRUE],
                         hash_values, i + 1)

RECURSIVE SetBits(_, _, _)
SetBits(bits, hash_values, i) ==
    IF i > Len(hash_values) THEN bits
    ELSE SetBits([bits EXCEPT ![hash_values[i] + 1] = TRUE], hash_values, i + 1)

\* variant: the counter counts only items that were not yet present
AddCountsDistinct(item) ==
    /\ phase = "live"
    /\ addCalls < MaxAdds
    /\ bit_array' = SetBits(bit_array, get_hash_values(item), 1)
    /\ items_added' = IF item \in added THEN items_added ELSE items_added + 1
    /\ added' = added \cup {item}
    /\ addCalls' = addCalls + 1
    /\ last' = Call("add", item, <<>>)
    /\ UNCHANGED <<phase, size, hash_count>>
    /\ UNCHANGED twin
    /\ UNCHANGED race

\* variant: the positions written are shifted by the filter's insert counter
add_counter_seeded(self, item) ==
    LET hash_values == GetHashValuesSalted(self, item)
    IN  [self EXCEPT !.bit_array = SetBits(self.bit_array, hash_values, 1),
                     !.items_added = self.items_added + 1]

\* add(self, item) from its first statement to its last, with no other call
\* in between: the filter it leaves
add(self, item) ==
    LET hash_values == GetHashValues(self, item)
    IN  [self EXCEPT !.bit_array = SetBits(self.bit_array, hash_values, 1),
                     !.items_added = self.items_added + 1]

Add(item) ==
    /\ phase = "live"
    /\ addCalls < MaxAdds
    /\ bit_array' = add(Self, item).bit_array
    /\ items_added' = add(Self, item).items_added
    /\ added' = added \cup {item}
    /\ addCalls' = addCalls + 1
    /\ last' = Call("add", item, <<>>)
    /\ UNCHANGED <<phase, size, hash_count>>
    /\ UNCHANGED twin
    /\ UNCHANGED race

(***************************************************************************)
(* BloomFilter.contains: the loop returns False at the first position      *)
(* whose bit is not set, True when it runs off the end of the list.        *)
(***************************************************************************)
\* variant: the loop returns True at the first position whose bit is set
RECURSIVE ContainsLoopFirst(_, _, _)
ContainsLoopFirst(bits, hash_values, i) ==
    IF i > Len(hash_values) THEN TRUE
    ELSE IF ~bits[hash_values[i] + 1] THEN FALSE
    ELSE TRUE

RECURSIVE ContainsLoop(_, _, _)
ContainsLoop(bits, hash_values, i) ==
    IF i > Len(hash_values) THEN TRUE
    ELSE IF ~bits[hash_values[i] + 1] THEN FALSE
    ELSE ContainsLoop(bits, hash_values, i + 1)

contains(item) == ContainsLoop(bit_array, get_hash_values(item), 1)

\* variant: a query also writes the bits of the item
ContainsInserts(item) ==
    /\ phase = "live"
    /\ last' = [Call("contains", item, <<>>) EXCEPT !.ok = contains(item)]
    /\ bit_array' = SetBits(bit_array, get_hash_values(item), 1)
    /\ UNCHANGED <<phase, size, hash_count, items_added, added, addCalls>>
    /\ UNCHANGED twin
    /\ UNCHANGED race

Contains(item) ==
    /\ phase = "live"
    /\ last' = [Call("contains", item, <<>>) EXCEPT !.ok = contains(item)]
    /\ UNCHANGED <<phase, size, hash_count, bit_array, items_added, added, addCalls>>
    /\ UNCHANGED twin
    /\ UNCHANGED race

\* BloomFilter.__contains__: item in bloom_filter
In(item) ==
    /\ phase = "live"
    /\ last' = [Call("in", item, <<>>) EXCEPT !.ok = contains(item)]
    /\ UNCHANGED <<phase, size, hash_count, bit_array, items_added, added, addCalls>>
    /\ UNCHANGED twin
    /\ UNCHANGED race

(***************************************************************************)
(* BloomFilter.estimate_false_positive_rate, in fixed point: a probability *)
(* x is the integer Scale * x.  math_exp(a, b) is math.exp(a / b) for      *)
(* a <= 0 < b, from exp(-1) and the Taylor series of the fractional part.  *)
(***************************************************************************)
Scale == 10000
ExpMinusOne == 3679

RECURSIVE PowFix(_, _)
PowFix(x, e) == IF e = 0 THEN Scale ELSE (PowFix(x, e - 1) * x) \div Scale

RECURSIVE ExpSeries(_, _, _)
ExpSeries(f, j, term) ==
    IF j > 8 \/ term = 0 THEN 0
    ELSE LET t == (term * f) \div (j * Scale)
         IN  (IF j % 2 = 1 THEN -t ELSE t) + ExpSeries(f, j + 1, t)

math_exp(a, b) ==
    LET whole == (-a) \div b
        frac == (((-a) % b) * Scale) \div b
    IN  (PowFix(ExpMinusOne, whole) * (Scale + ExpSeries(frac, 1, Scale))) \div Scale

estimate_false_positive_rate ==
    IF items_added = 0 THEN 0
    ELSE LET probability_bit_is_one == Scale - math_exp(-hash_count * items_added, size)
         IN  PowFix(probability_bit_is_one, hash_count)

EstimateFalsePositiveRate ==
    /\ phase = "live"
    /\ last' = [Call("estimate_false_positive_rate", NoItem, <<>>)
                  EXCEPT !.num = estimate_false_positive_rate, !.den = Scale]
    /\ UNCHANGED <<phase, size, hash_count, bit_array, items_added, added, addCalls>>
    /\ UNCHANGED twin
    /\ UNCHANGED race

(***************************************************************************)
(* BloomFilter.get_fill_ratio: sum(self.bit_array) / self.size, kept as    *)
(* the pair numerator, denominator.                                        *)
(***************************************************************************)
\* sum(self.bit_array): the number of True cells
sum(bits) == Cardinality({j \in DOMAIN bits : bits[j]})

get_fill_ratio == [num |-> sum(bit_array), den |-> size]

GetFillRatio ==
    /\ phase = "live"
    /\ last' = [Call("get_fill_ratio", NoItem, <<>>)
                  EXCEPT !.num = get_fill_ratio.num, !.den = get_fill_ratio.den]
    /\ UNCHANGED <<phase, size, hash_count, bit_array, items_added, added, addCalls>>
    /\ UNCHANGED twin
    /\ UNCHANGED race

\* BloomFilter.__len__
Len_ ==
    /\ phase = "live"
    /\ last' = [Call("len", NoItem, <<>>) EXCEPT !.num = items_added]
    /\ UNCHANGED <<phase, size, hash_count, bit_array, items_added, added, addCalls>>
    /\ UNCHANGED twin
    /\ UNCHANGED race

(***************************************************************************)
(* BloomFilter.__repr__: the summary shows size, hash_count, items_added   *)
(* and the fill ratio formatted with ".2%", that is in hundredths of a     *)
(* percent, ties rounded to even.  The four numbers are the result.        *)
(***************************************************************************)
FormatPercent2(r) ==
    LET q == (r.num * 10000) \div r.den
        rem == (r.num * 10000) % r.den
    IN  IF 2 * rem > r.den THEN q + 1
        ELSE IF 2 * rem = r.den THEN q + (q % 2)
        ELSE q

Repr ==
    /\ phase = "live"
    /\ last' = [Call("repr", NoItem, <<>>)
                  EXCEPT !.locals = <<size, hash_count, items_added,
                                      FormatPercent2(get_fill_ratio)>>]
    /\ UNCHANGED <<phase, size, hash_count, bit_array, items_added, added, addCalls>>
    /\ UNCHANGED twin
    /\ UNCHANGED race

(***************************************************************************)
(* The module level functions calculate_optimal_size and                   *)
(* calculate_optimal_hash_count.  They check none of their arguments:      *)
(* math.log raises ValueError for a rate that is not positive, and the     *)
(* division size / expected_elements raises ZeroDivisionError for 0.       *)
(***************************************************************************)
RaiseError(call, err, msg) == [call EXCEPT !.err = err, !.msg = msg]

\* variant: the quotient is rounded up
calculate_optimal_size_ceil(expected_elements, fp) ==
    LET a == -expected_elements * math_log(fp)
        q == PyInt(a, Ln2SquaredMicro)
    IN  IF q * Ln2SquaredMicro < a THEN q + 1 ELSE q

\* int(-expected_elements * math.log(fp_rate) / (math.log(2) ** 2)), fp > 0
calculate_optimal_size(expected_elements, fp) ==
    PyInt(-expected_elements * math_log(fp), Ln2SquaredMicro)

CalculateOptimalSize(expected_elements, fp) ==
    /\ LET call == Call("calculate_optimal_size", NoItem, <<expected_elements, fp>>)
       IN  last' = IF fp <= 0
                   THEN RaiseError(call, "ValueError", "math domain error")
                   ELSE [call EXCEPT !.num = calculate_optimal_size(expected_elements, fp)]
    /\ UNCHANGED <<phase, size, hash_count, bit_array, items_added, added, addCalls>>
    /\ UNCHANGED twin
    /\ UNCHANGED race

\* max(1, int((size / expected_elements) * math.log(2))), expected_elements # 0
calculate_optimal_hash_count(sz, expected_elements) ==
    max(1, IF expected_elements > 0
           THEN PyInt(sz * Ln2Micro, expected_elements * 1000000)
           ELSE PyInt(-sz * Ln2Micro, -expected_elements * 1000000))

CalculateOptimalHashCount(sz, expected_elements) ==
    /\ LET call == Call("calculate_optimal_hash_count", NoItem, <<sz, expected_elements>>)
       IN  last' = IF expected_elements = 0
                   THEN RaiseError(call, "ZeroDivisionError", "division by zero")
                   ELSE [call EXCEPT !.num = calculate_optimal_hash_count(sz, expected_elements)]
    /\ UNCHANGED <<phase, size, hash_count, bit_array, items_added, added, addCalls>>
    /\ UNCHANGED twin
    /\ UNCHANGED race

Next ==
    \/ \E s \in -1..MaxSize, h \in -1..MaxHashCount : New(s, h)
    \/ \E n \in -1..MaxExpected, fp \in FpRates : CreateOptimal(n, fp)
    \/ \E item \in Items : Add(item)
    \/ \E item \in Items : Contains(item)
    \/ \E item \in Items : In(item)
    \/ EstimateFalsePositiveRate
    \/ GetFillRatio
    \/ Len_
    \/ Repr

Spec == Init /\ [][Next]_vars

(***************************************************************************)
(* The parameter formulas on their own: a caller that calls the two module *)
(* level functions and create_optimal with arguments from the bounded      *)
(* sets.                                                                   *)
(***************************************************************************)
NextFormulas ==
    \/ \E n \in -1..MaxExpected, fp \in FpRates : CalculateOptimalSize(n, fp)
    \/ \E sz \in 0..MaxSize, n \in -1..MaxExpected : CalculateOptimalHashCount(sz, n)
    \/ \E n \in -1..MaxExpected, fp \in FpRates : CreateOptimal(n, fp)

SpecFormulas == Init /\ [][NextFormulas]_vars

(***************************************************************************)
(* Two filters constructed with the same size and hash_count, each with    *)
(* its own sequence of add calls.  TwinAdd is BloomFilter.add on the       *)
(* second filter; last keeps the calls on the first one.                   *)
(***************************************************************************)
TwinAdd(item) ==
    /\ phase = "live"
    /\ twin_items_added < MaxTwinAdds
    /\ twin_bit_array' = add(Twin, item).bit_array
    /\ twin_items_added' = add(Twin, item).items_added
    /\ UNCHANGED <<phase, size, hash_count, bit_array, items_added, added, addCalls, last>>
    /\ UNCHANGED race

InitTwin ==
    \E s \in 1..MaxSize, h \in 1..MaxHashCount :
        /\ phase = "live"
        /\ size = s
        /\ hash_count = h
        /\ bit_array = [j \in 1..s |-> FALSE]
        /\ items_added = 0
        /\ added = {}
        /\ addCalls = 0
        /\ last = Call("new", NoItem, <<s, h>>)
        /\ twin_bit_array = [j \in 1..s |-> FALSE]
        /\ twin_items_added = 0
        /\ threads = [t \in Threads |-> IdleThread]
        /\ before = NoFilter

NextTwin ==
    \/ \E item \in Items : Add(item)
    \/ \E item \in Items : TwinAdd(item)

SpecTwin == InitTwin /\ [][NextTwin]_vars

(***************************************************************************)
(* Two threads that each call add() once on the one filter, with no lock   *)
(* around the calls.  A step is one statement of one thread: the call of   *)
(* _get_hash_values, one assignment self.bit_array[position] = True, the   *)
(* read of self.items_added += 1, or its write.  An assignment to one cell *)
(* of the list is one store; the += is a read, an addition on the value    *)
(* read, and a store.  The filter is constructed, and at most MaxPrior     *)
(* whole add() calls are made on it, before the threads start; contains()  *)
(* is called when both have returned.  last keeps the whole calls only.    *)
(***************************************************************************)
MaxPrior == 1

\* the items of the calls of this specification
RaceItems == {Hello, World, EAcute}

Idle == \A t \in Threads : threads[t].pc = "idle"
BothDone == \A t \in Threads : threads[t].pc = "done"

PriorAdd(item) ==
    /\ Idle
    /\ addCalls < MaxPrior
    /\ Add(item)

\* thread t enters add(item): hash_values = self._get_hash_values(item)
AddCall(t, item) ==
    /\ phase = "live"
    /\ threads[t].pc = "idle"
    /\ LET hash_values == get_hash_values(item)
       IN  threads' = [threads EXCEPT ![t] =
                          [pc |-> IF hash_values = <<>> THEN "load" ELSE "loop",
                           item |-> item, hash_values |-> hash_values, i |-> 1,
                           n |-> 0, raced |-> FALSE]]
    /\ before' = IF Idle THEN Self ELSE before
    /\ added' = added \cup {item}
    /\ addCalls' = addCalls + 1
    /\ UNCHANGED <<phase, size, hash_count, bit_array, items_added, last>>
    /\ UNCHANGED twin

\* variant: the assignment flips the cell
AddSetBitToggle(t) ==
    /\ threads[t].pc = "loop"
    /\ LET th == threads[t]
           position == th.hash_values[th.i]
           o == threads[Other(t)]
       IN  /\ bit_array' = [bit_array EXCEPT ![position + 1] = ~bit_array[position + 1]]
           /\ threads' = [threads EXCEPT ![t] =
                             [th EXCEPT !.i = th.i + 1,
                                        !.pc = IF th.i = Len(th.hash_values)
                                               THEN "load" ELSE "loop",
                                        !.raced = th.raced \/ (o.pc = "loop" /\ o.i > 1)]]
    /\ UNCHANGED <<phase, size, hash_count, items_added, added, addCalls, last, before>>
    /\ UNCHANGED twin

\* thread t, one turn of the loop: self.bit_array[position] = True
AddSetBit(t) ==
    /\ threads[t].pc = "loop"
    /\ LET th == threads[t]
           position == th.hash_values[th.i]
           o == threads[Other(t)]
       IN  /\ bit_array' = [bit_array EXCEPT ![position + 1] = TRUE]
           /\ threads' = [threads EXCEPT ![t] =
                             [th EXCEPT !.i = th.i + 1,
                                        !.pc = IF th.i = Len(th.hash_values)
                                               THEN "load" ELSE "loop",
                                        !.raced = th.raced \/ (o.pc = "loop" /\ o.i > 1)]]
    /\ UNCHANGED <<phase, size, hash_count, items_added, added, addCalls, last, before>>
    /\ UNCHANGED twin

\* thread t, self.items_added += 1: the read of self.items_added
AddLoadCounter(t) ==
    /\ threads[t].pc = "load"
    /\ threads' = [threads EXCEPT ![t].n = items_added, ![t].pc = "store"]
    /\ UNCHANGED <<phase, size, hash_count, bit_array, items_added, added, addCalls,
                   last, before>>
    /\ UNCHANGED twin

\* variant: the store adds one to the counter as it is at the store
AddStoreCounterFresh(t) ==
    /\ threads[t].pc = "store"
    /\ items_added' = items_added + 1
    /\ threads' = [threads EXCEPT ![t].pc = "done"]
    /\ UNCHANGED <<phase, size, hash_count, bit_array, added, addCalls, last, before>>
    /\ UNCHANGED twin

\* thread t, self.items_added += 1: the store of the value read plus one;
\* add() returns
AddStoreCounter(t) ==
    /\ threads[t].pc = "store"
    /\ items_added' = threads[t].n + 1
    /\ threads' = [threads EXCEPT ![t].pc = "done"]
    /\ UNCHANGED <<phase, size, hash_count, bit_array, added, addCalls, last, before>>
    /\ UNCHANGED twin

ContainsAfter(item) ==
    /\ BothDone
    /\ Contains(item)

InitRace ==
    \E s \in 1..MaxSize, h \in 1..MaxHashCount :
        /\ phase = "live"
        /\ size = s
        /\ hash_count = h
        /\ bit_array = [j \in 1..s |-> FALSE]
        /\ items_added = 0
        /\ added = {}
        /\ addCalls = 0
        /\ last = Call("new", NoItem, <<s, h>>)
        /\ twin_bit_array = <<>>
        /\ twin_items_added = 0
        /\ threads = [t \in Threads |-> IdleThread]
        /\ before = NoFilter

NextRace ==
    \/ \E item \in RaceItems : PriorAdd(item)
    \/ \E t \in Threads, item \in RaceItems : AddCall(t, item)
    \/ \E t \in Threads : AddSetBit(t)
    \/ \E t \in Threads : AddLoadCounter(t)
    \/ \E t \in Threads : AddStoreCounter(t)
    \/ \E item \in RaceItems : ContainsAfter(item)

SpecRace == InitRace /\ [][NextRace]_vars

(***************************************************************************)
(* Properties                                                              *)
(***************************************************************************)
QueryOps == {"contains", "in"}
ReadOps == {"contains", "in", "estimate_false_positive_rate", "get_fill_ratio",
            "len", "repr"}

AllBitsSet(item) ==
    \A j \in 1..hash_count : bit_array[get_hash_values(item)[j] + 1]

SomeBitClear == \E j \in DOMAIN bit_array : ~bit_array[j]
SomeBitSet == \E j \in DOMAIN bit_array : bit_array[j]

\* C1: no false negatives: once add(e) has been called, contains(e) is true
\* in every later state, and a contains or "in" call on e returns True.
NoFalseNegatives ==
    /\ \A e \in added : contains(e)
    /\ (last.op \in QueryOps /\ last.item \in added) => last.ok

\* a query of an added item, answered after another item was added as well,
\* on a filter that is not saturated
NoFalseNegativesWitness ==
    /\ last.op = "contains"
    /\ last.item \in added
    /\ Cardinality(added) >= 2
    /\ last.ok
    /\ SomeBitClear

\* C2: bits are monotone: no step clears a bit that is set, so the number
\* of set bits and the fill ratio never decrease.
FillLeq(r1, r2) == r1.num * r2.den <= r2.num * r1.den

BitsMonotone ==
    [][/\ \A j \in DOMAIN bit_array : bit_array[j] => bit_array'[j]
       /\ phase = "live" =>
            /\ sum(bit_array) <= sum(bit_array')
            /\ FillLeq(get_fill_ratio, get_fill_ratio')]_vars

\* after two adds, the last one of an item whose bits were all set already
BitsMonotoneWitness ==
    /\ last.op = "add"
    /\ addCalls >= 2
    /\ Cardinality(added) = 1
    /\ SomeBitSet
    /\ SomeBitClear

\* C3: items_added is the number of add calls: every add adds one to it
\* (also the add of an item already present), no other call changes it, and
\* len returns it.
CountsAddCalls ==
    phase = "live" =>
        /\ items_added = addCalls
        /\ last.op = "add" => items_added = last.n0 + 1
        /\ last.op \in ReadOps => items_added = last.n0
        /\ last.op = "len" => (last.num = addCalls /\ last.den = 1)

\* len after the same item was added three times
CountsAddCallsWitness ==
    /\ last.op = "len"
    /\ last.num = 3
    /\ Cardinality(added) = 1

\* C4: add(e) directly followed by add(e): the second add leaves the bit
\* array as the first add left it, and items_added is two more than before
\* the first add.
AddTwiceSameBits ==
    [][(/\ last.op = "add"
        /\ last'.op = "add"
        /\ last'.item = last.item
        /\ addCalls' = addCalls + 1)
       => (/\ bit_array' = bit_array
           /\ items_added' = last.n0 + 2)]_vars

\* the state after add(e), add(e) on a filter with several hash functions,
\* e having been added before as well
AddTwiceSameBitsWitness ==
    /\ last.op = "add"
    /\ last.n0 = 2
    /\ items_added = 3
    /\ Cardinality(added) = 1
    /\ hash_count >= 2
    /\ SomeBitClear

\* C5: contains(e) and "e in filter" return True exactly when all
\* hash_count bits at the positions of e are set.
ContainsIffAllBitsSet ==
    (phase = "live" /\ last.op \in QueryOps) =>
        /\ Len(get_hash_values(last.item)) = hash_count
        /\ last.ok <=> AllBitsSet(last.item)

\* a query answered False by a position after the first one
ContainsIffAllBitsSetWitness ==
    /\ last.op \in QueryOps
    /\ ~last.ok
    /\ hash_count >= 2
    /\ bit_array[get_hash_values(last.item)[1] + 1]

\* C6: contains, "in", get_fill_ratio, estimate_false_positive_rate, len and
\* the summary leave bit_array, items_added, size and hash_count unchanged.
QueriesReadOnly ==
    [][last'.op \in ReadOps =>
         UNCHANGED <<bit_array, items_added, size, hash_count>>]_vars

\* a query answered False on a filter that holds items
QueriesReadOnlyWitness ==
    /\ last.op = "contains"
    /\ ~last.ok
    /\ items_added > 0
    /\ SomeBitSet

\* C7: a constructed filter that no add was called on is empty: the counter
\* is 0, all size bits are False, fill ratio and estimated false positive
\* rate are 0 and contains is False for every item.
FreshFilterEmpty ==
    (phase = "live" /\ addCalls = 0) =>
        /\ items_added = 0
        /\ Len(bit_array) = size
        /\ \A j \in 1..size : ~bit_array[j]
        /\ get_fill_ratio.num = 0
        /\ estimate_false_positive_rate = 0
        /\ \A e \in Items : ~contains(e)
        /\ last.op \in QueryOps => ~last.ok
        /\ last.op \in {"get_fill_ratio", "estimate_false_positive_rate", "len"}
              => last.num = 0

\* a query on a filter that no add was called on
FreshFilterEmptyWitness ==
    /\ phase = "live"
    /\ addCalls = 0
    /\ last.op = "contains"
    /\ size >= 2

\* C8: BloomFilter(size, hash_count) with size <= 0 or hash_count <= 0
\* raises ValueError, and the caller holds no filter: no attribute has been
\* set and no bit array allocated.
NoInstance ==
    /\ phase = "none"
    /\ size = 0
    /\ hash_count = 0
    /\ bit_array = <<>>
    /\ items_added = 0

NewRejectsNonPositive ==
    (last.op = "new" /\ (last.args[1] <= 0 \/ last.args[2] <= 0)) =>
        /\ last.err = "ValueError"
        /\ NoInstance

\* a rejected construction with a valid size and a hash count of zero
NewRejectsNonPositiveWitness ==
    /\ last.op = "new"
    /\ last.args[1] > 0
    /\ last.args[2] = 0
    /\ last.err = "ValueError"

\* C9: create_optimal(n, p) with n <= 0, p <= 0 or p >= 1 raises ValueError
\* before it has computed a size or a hash count and before any allocation.
CreateOptimalRejects ==
    (/\ last.op = "create_optimal"
     /\ (last.args[1] <= 0 \/ last.args[2] <= 0 \/ last.args[2] >= 1000)) =>
        /\ last.err = "ValueError"
        /\ last.locals = <<>>
        /\ NoInstance

\* a rejected create_optimal(n, 1.0) with n positive
CreateOptimalRejectsWitness ==
    /\ last.op = "create_optimal"
    /\ last.args[1] > 0
    /\ last.args[2] = 1000
    /\ last.err = "ValueError"

\* C10: create_optimal(n, p) with n >= 1 and 0 < p < 1 raises nothing and
\* returns a filter with size >= 1 and hash_count >= 1.
CreateOptimalSucceedsOnValid ==
    (/\ last.op = "create_optimal"
     /\ last.args[1] >= 1
     /\ 0 < last.args[2]
     /\ last.args[2] < 1000) =>
        /\ last.err = ""
        /\ phase = "live"
        /\ size >= 1
        /\ hash_count >= 1

(***************************************************************************)
(* Properties of the parameter formulas, checked under SpecFormulas        *)
(***************************************************************************)
ValidSizeArgs(args) == args[1] >= 1 /\ 0 < args[2] /\ args[2] < 1000

\* C11: for n >= 1, 0 < p < 1 and m >= 1 calculate_optimal_size(n, p)
\* returns an integer >= 1 and calculate_optimal_hash_count(m, n) returns an
\* integer >= 1.
OptimizerResultsPositive ==
    /\ (last.op = "calculate_optimal_size" /\ ValidSizeArgs(last.args)) =>
          (last.err = "" /\ last.num >= 1)
    /\ (/\ last.op = "calculate_optimal_hash_count"
        /\ last.args[1] >= 1
        /\ last.args[2] >= 1) =>
          (last.err = "" /\ last.num >= 1)

\* C12: calculate_optimal_size(n, p) raises ValueError when n <= 0, p <= 0
\* or p >= 1, and calculate_optimal_hash_count(m, n) raises ValueError when
\* n <= 0; neither returns a value or raises another exception.
StandaloneFormulasReject ==
    /\ (/\ last.op = "calculate_optimal_size"
        /\ (last.args[1] <= 0 \/ last.args[2] <= 0 \/ last.args[2] >= 1000)) =>
          last.err = "ValueError"
    /\ (last.op = "calculate_optimal_hash_count" /\ last.args[2] <= 0) =>
          last.err = "ValueError"

\* The value -n * ln(p) / (ln 2)^2 as the fraction of two integers.
SizeNumerator(args) == -args[1] * math_log(args[2])

IsCeilingOf(m, a, b) == m * b >= a /\ (m - 1) * b < a
IsTruncationOf(m, a, b) == m * b <= a /\ a < (m + 1) * b

Range(f) == {f[j] : j \in DOMAIN f}

SetPositions == {j - 1 : j \in {i \in DOMAIN bit_array : bit_array[i]}}

\* C14: for every item the position list has exactly hash_count entries,
\* the first is h1 mod size and each next one is the previous one plus h2,
\* mod size (so entry i is (h1 + i * h2) mod size); every entry lies in
\* 0 .. size - 1, and all are 0 when size is 1.  The first add writes
\* exactly these positions.
PositionsWellFormed ==
    phase = "live" =>
        /\ \A item \in Items :
             LET hv == get_hash_values(item)
                 d1 == md5_hexdigest(encode(str(item)))
                 d2 == sha256_hexdigest(encode(str(item)))
                 h1 == IntHexMod(d1, Len(d1), size)
                 h2 == IntHexMod(d2, Len(d2), size)
             IN  /\ DOMAIN hv = 1..hash_count
                 /\ hv[1] = h1
                 /\ \A j \in 2..hash_count : hv[j] = (hv[j - 1] + h2) % size
                 /\ \A j \in 1..hash_count : hv[j] \in 0..(size - 1)
                 /\ size = 1 => \A j \in 1..hash_count : hv[j] = 0
        /\ (last.op = "add" /\ last.n0 = 0) =>
             SetPositions = Range(get_hash_values(last.item))

\* the first add of an item with three different positions
PositionsWellFormedWitness ==
    /\ last.op = "add"
    /\ last.n0 = 0
    /\ hash_count >= 3
    /\ Cardinality(SetPositions) >= 3

PostOps == ReadOps \cup {"add"}

\* C16: on a constructed filter add, contains, get_fill_ratio and
\* estimate_false_positive_rate cannot raise: size, the divisor and modulus,
\* is at least 1, the bit array has size cells, every position of every
\* item is an index of the bit array, and no such call ended with an error.
OperationsTotal ==
    phase = "live" =>
        /\ size >= 1
        /\ hash_count >= 1
        /\ DOMAIN bit_array = 1..size
        /\ get_fill_ratio.den # 0
        /\ \A item \in Items :
             \A j \in DOMAIN get_hash_values(item) :
                 get_hash_values(item)[j] + 1 \in DOMAIN bit_array
        /\ last.op \in PostOps => last.err = ""

\* the estimate on a filter of one bit that was added to several times
OperationsTotalWitness ==
    /\ last.op = "estimate_false_positive_rate"
    /\ size = 1
    /\ items_added >= 2
    /\ last.num > 0

\* C17: a constructed filter is empty (items_added = 0, no bit set) or
\* populated (items_added > 0, some bit set); it leaves empty only by the
\* first add, and once populated it stays populated.
Empty == items_added = 0 /\ ~SomeBitSet
Populated == items_added > 0 /\ SomeBitSet

TwoPhases ==
    [][/\ phase = "live" => (Empty \/ Populated)
       /\ phase' = "live" => (Empty' \/ Populated')
       /\ (phase = "live" /\ Empty /\ ~Empty') =>
             (last'.op = "add" /\ last'.n0 = 0 /\ Populated')
       /\ (phase = "live" /\ Populated) => Populated']_vars

\* the state right after the first add
TwoPhasesWitness ==
    /\ Populated
    /\ last.op = "add"
    /\ last.n0 = 0
    /\ SomeBitClear

\* C18: add(e) changes only bits at the positions of e, and items_added;
\* size, hash_count and the length of the bit array (always size) never
\* change once the filter is constructed, and are the constructor's
\* arguments.
AddFrame ==
    [][/\ last'.op = "add" =>
            /\ LET written == {p + 1 : p \in Range(get_hash_values(last'.item))}
               IN  \A j \in (DOMAIN bit_array) \ written :
                       bit_array'[j] = bit_array[j]
            /\ UNCHANGED <<phase, size, hash_count>>
       /\ phase = "live" =>
            /\ UNCHANGED <<size, hash_count>>
            /\ Len(bit_array) = size
            /\ Len(bit_array') = size
       /\ (last'.op = "new" /\ last'.err = "") =>
            (size' = last'.args[1] /\ hash_count' = last'.args[2]
               /\ Len(bit_array') = last'.args[1])]_vars

\* an add that set some bits and left others, set and clear, as they were
AddFrameWitness ==
    /\ last.op = "add"
    /\ last.n0 >= 1
    /\ SetPositions \ Range(get_hash_values(last.item)) # {}
    /\ SomeBitClear

\* C19: when every bit is set, contains is True for every item, and an add
\* raises nothing, leaves the bit array as it is and adds 1 to items_added.
Saturated == bit_array # <<>> /\ ~SomeBitClear

SaturationTerminal ==
    [][(phase = "live" /\ Saturated) =>
         /\ \A e \in Items : contains(e)
         /\ Saturated'
         /\ last'.op \in QueryOps => last'.ok
         /\ last'.op = "add" =>
              /\ last'.err = ""
              /\ bit_array' = bit_array
              /\ items_added' = items_added + 1]_vars

\* an add on a filter of several bits that was saturated before it: each
\* of the items added so far covers all positions on its own
SaturationTerminalWitness ==
    /\ Saturated
    /\ size >= 2
    /\ last.op = "add"
    /\ last.n0 >= 1
    /\ \A e \in added : Range(get_hash_values(e)) = 0..(size - 1)

(***************************************************************************)
(* Properties of two filters with the same parameters (under SpecTwin)     *)
(***************************************************************************)
\* the filter as it was when it was constructed
Fresh ==
    [size |-> size, hash_count |-> hash_count,
     bit_array |-> [j \in 1..size |-> FALSE], items_added |-> 0]

\* C15: the positions of an item are the same on both filters, whatever
\* add calls each of them has seen, and the same as on the filter when it
\* was constructed: they depend on the bytes of the item, size and
\* hash_count only (42 and "42" have the same bytes and the same positions).
PositionsDeterministic ==
    /\ \A item \in Items :
         /\ GetHashValues(Self, item) = GetHashValues(Twin, item)
         /\ GetHashValues(Self, item) = GetHashValues(Fresh, item)
    /\ \A a, b \in Items :
         encode(str(a)) = encode(str(b)) =>
             GetHashValues(Self, a) = GetHashValues(Twin, b)

\* the two filters have seen different add calls
PositionsDeterministicWitness ==
    /\ items_added = 3
    /\ twin_items_added = 1
    /\ bit_array # twin_bit_array
    /\ size >= 3
    /\ hash_count >= 2

(***************************************************************************)
(* create_optimal against the module level functions (under SpecFormulas)  *)
(***************************************************************************)
\* C20: for valid (n, p) the size create_optimal computes is
\* calculate_optimal_size(n, p), its hash count is
\* calculate_optimal_hash_count(that size, n), which is
\* max(1, floor((size / n) * ln 2)), and the filter it returns has them.
CreateOptimalAgrees ==
    (last.op = "create_optimal" /\ ValidSizeArgs(last.args)) =>
        LET n == last.args[1]
            m == calculate_optimal_size(n, last.args[2])
            k == calculate_optimal_hash_count(m, n)
        IN  /\ last.locals = <<m, k>>
            /\ k >= 1
            /\ \/ IsTruncationOf(k, m * Ln2Micro, n * 1000000)
               \/ (k = 1 /\ m * Ln2Micro < n * 1000000)
            /\ last.err = "" => (phase = "live" /\ size = m /\ hash_count = k)

\* create_optimal(3, 0.01) returned a filter of 28 bits and 6 hash functions
CreateOptimalAgreesWitness ==
    /\ last.op = "create_optimal"
    /\ last.args = <<3, 10>>
    /\ last.err = ""
    /\ size = 28
    /\ hash_count = 6

(***************************************************************************)
(* Two add() calls without a lock (checked under SpecRace)                 *)
(***************************************************************************)
\* the filter left by the two calls made one after the other, a first
Sequential(a, b) == add(add(before, a), b)

SequentialOutcomes ==
    {Sequential(threads[1].item, threads[2].item),
     Sequential(threads[2].item, threads[1].item)}

\* both threads read the same value of items_added
SameCounterRead == threads[1].n = threads[2].n

\* C21: two add calls without a lock, interleaved at single bit writes and
\* at the read and the write of the counter, can end in a state that no
\* sequential order of the two calls produces: when both have returned, the
\* filter differs from both sequential outcomes exactly when the two calls
\* read the same counter value, and then items_added went up by one only.
RaceDiffersFromSequential ==
    BothDone =>
        /\ SameCounterRead <=> Self \notin SequentialOutcomes
        /\ SameCounterRead => items_added = before.items_added + 1
        /\ \A f \in SequentialOutcomes : f.items_added = before.items_added + 2

\* both calls have returned, of different items on a filter that held an
\* item, and the filter is the outcome of neither order
RaceDiffersFromSequentialWitness ==
    /\ BothDone
    /\ threads[1].item # threads[2].item
    /\ before.items_added >= 1
    /\ Self \notin SequentialOutcomes
    /\ items_added = before.items_added + 1

\* C24: no false negatives under interleaved bit writes: a thread that has
\* left the loop of add(e) has every bit of e set, whatever the other thread
\* wrote in between; when both calls have returned contains is True for
\* both items, and a contains call on either returns True.
RaceKeepsMembers ==
    /\ \A t \in Threads :
         threads[t].pc \in {"load", "store", "done"} => AllBitsSet(threads[t].item)
    /\ BothDone =>
         /\ \A t \in Threads : contains(threads[t].item)
         /\ (last.op = "contains" /\ \E t \in Threads : last.item = threads[t].item)
               => last.ok

\* contains of an item after both calls returned: the two items differ and
\* share a position, each thread wrote between two writes of the other, and
\* the filter is not saturated
RaceKeepsMembersWitness ==
    /\ BothDone
    /\ last.op = "contains"
    /\ last.item = threads[1].item
    /\ last.ok
    /\ threads[1].item # threads[2].item
    /\ Range(threads[1].hash_values) \cap Range(threads[2].hash_values) # {}
    /\ Range(threads[1].hash_values) # Range(threads[2].hash_values)
    /\ threads[1].raced
    /\ threads[2].raced
    /\ SomeBitClear

(***************************************************************************)
(* The bit array as a function of the items added (checked under Spec)     *)
(***************************************************************************)
PositionsOf(items) == UNION {Range(get_hash_values(e)) : e \in items}

\* C22: on a constructed filter bit j is set if and only if j is one of the
\* positions of an item that add was called with: the set bits are exactly
\* the union of the position sets of the added items.
BitsAreUnionOfPositions ==
    phase = "live" =>
        /\ SetPositions = PositionsOf(added)
        /\ \A j \in 1..size : bit_array[j] <=> (j - 1) \in PositionsOf(added)

\* two different items were added, their position sets overlap without
\* being equal, and some bit is still clear
BitsAreUnionOfPositionsWitness ==
    /\ phase = "live"
    /\ last.op = "add"
    /\ SomeBitClear
    /\ \E a, b \in added :
         /\ Range(get_hash_values(a)) \cap Range(get_hash_values(b)) # {}
         /\ Range(get_hash_values(a)) \ Range(get_hash_values(b)) # {}
         /\ Range(get_hash_values(b)) \ Range(get_hash_values(a)) # {}

\* add called with the items of a sequence, one after the other
RECURSIVE AddAll(_, _)
AddAll(self, items) ==
    IF items = <<>> THEN self ELSE AddAll(add(self, Head(items)), Tail(items))

Orders(a, b, c) ==
    {<<a, b, c>>, <<a, c, b>>, <<b, a, c>>, <<b, c, a>>, <<c, a, b>>, <<c, b, a>>}

\* C23: add commutes: from every filter that a construction or an add left,
\* add(a) then add(b) gives the same filter (bit array and items_added) as
\* add(b) then add(a); and on a new filter the six orders of any three items
\* give the same filter.
AddCommutes ==
    (phase = "live" /\ last.op \in {"new", "create_optimal", "add"}) =>
        /\ \A a, b \in Items : add(add(Self, a), b) = add(add(Self, b), a)
        /\ last.op = "new" =>
             \A a, b, c \in Items :
                 \A o \in Orders(a, b, c) : AddAll(Self, o) = AddAll(Self, <<a, b, c>>)

\* a filter that an add left, and two items that each set a bit the other
\* one does not set
AddCommutesWitness ==
    /\ phase = "live"
    /\ last.op = "add"
    /\ \E a, b \in Items :
         LET fa == add(Self, a)
             fb == add(Self, b)
             fab == add(fa, b)
         IN  /\ fa.bit_array # bit_array
             /\ fb.bit_array # bit_array
             /\ fab.bit_array # fa.bit_array
             /\ fab.bit_array # fb.bit_array
             /\ fab = add(fb, a)
             /\ fab.items_added = items_added + 2

====
